---- MODULE Spec2Model ----
(***************************************************************************)
(* Model of src/main.py: the gas-station simulation of main().  Dispensers *)
(* ("automates") are loaded from the catalog, the request list is sorted   *)
(* by arrival time, and the for loop of main() merges arrivals with the    *)
(* pending completions kept in the dict finish_events (keyed by finish     *)
(* time).  Times are minutes since 00:00; prices are in tenths of a ruble. *)
(* The field 'current_client' of an automate is only ever None and is left *)
(* out.  Printing is left out.                                             *)
(***************************************************************************)
EXTENDS Integers, Sequences, FiniteSets

VARIABLES automates, order, all_requests, idx, finish_events, fuel_sold,
          total_revenue, lost_clients, lost_clients_by_brand, pc, log, applied,
          replay, call

\* replay and call are not state of main(): replay keeps the outcome of a
\* first run while the same input is run again, call holds one call of
\* refuel_time on its own.  A single run leaves both alone.
harness == <<replay, call>>

vars == <<automates, order, all_requests, idx, finish_events, fuel_sold,
          total_revenue, lost_clients, lost_clients_by_brand, pc, log, applied,
          replay, call>>

(* ------------------------------ bounds -------------------------------- *)
MaxRequests == 3
MaxQueue == 2
\* requests of an input that is run twice
MaxReplayRequests == 2
\* largest volume of a single call of refuel_time
MaxVolume == 40

Nums == {1, 2}
\* arrival times, in minutes since 00:00
Times == {0, 1, 20}
Volumes == {10}
\* "AI-92" is a brand of the price table, "DT" is a brand outside of it
Brands == {"AI-92", "DT"}
BrandLists == {{"AI-92"}, {"DT"}}
Variations == {-1, 0, 1}

(* ------------------------- tables of main() --------------------------- *)
petrol_prices ==
  [b \in {"AI-80", "AI-92", "AI-95", "AI-98"} |->
     CASE b = "AI-80" -> 380 [] b = "AI-92" -> 605
       [] b = "AI-95" -> 650 [] b = "AI-98" -> 823]

ZeroByBrand == [b \in {"AI-80", "AI-92", "AI-95", "AI-98"} |-> 0]

(* --------------------------- get_information -------------------------- *)
CatalogLines == [num : Nums, max_queue : 0..MaxQueue, brands : BrandLists]

\* at most as many lines as there are numbers; a number may occur twice
Catalogs == UNION {[1..n -> CatalogLines] : n \in 0..Cardinality(Nums)}

NewAutomate(line) ==
  [max_queue |-> line.max_queue, brands |-> line.brands,
   queue |-> 0, previous_time |-> 0]

\* the dict built by the loop of get_information: a later line with the
\* same number replaces the value
RECURSIVE LoadAutomates(_)
LoadAutomates(lines) ==
  IF lines = <<>> THEN <<>>
  ELSE LET n    == Len(lines)
           rest == LoadAutomates(SubSeq(lines, 1, n - 1))
           num  == lines[n].num
       IN [k \in DOMAIN rest \cup {num} |->
             IF k = num THEN NewAutomate(lines[n]) ELSE rest[k]]

\* the iteration order of that dict: keys in order of first insertion
RECURSIVE LoadOrder(_)
LoadOrder(lines) ==
  IF lines = <<>> THEN <<>>
  ELSE LET n    == Len(lines)
           rest == LoadOrder(SubSeq(lines, 1, n - 1))
       IN IF \E i \in 1..Len(rest) : rest[i] = lines[n].num
          THEN rest ELSE Append(rest, lines[n].num)

(* ------------------------ requests and sorting ------------------------ *)
Requests == [time : Times, volume : Volumes, brand : Brands]

RequestLists == UNION {[1..n -> Requests] : n \in 0..MaxRequests}

\* list.sort(key=time) is stable: insert each element after the elements
\* whose time is <= its own
RECURSIVE InsertByTime(_, _)
InsertByTime(sorted, r) ==
  IF sorted = <<>> THEN <<r>>
  ELSE LET n == Len(sorted)
       IN IF sorted[n].time <= r.time THEN Append(sorted, r)
          ELSE Append(InsertByTime(SubSeq(sorted, 1, n - 1), r), sorted[n])

RECURSIVE SortByTime(_)
SortByTime(input) ==
  IF input = <<>> THEN <<>>
  ELSE LET n == Len(input)
       IN InsertByTime(SortByTime(SubSeq(input, 1, n - 1)), input[n])

(* -------------------------- selection policy -------------------------- *)
RECURSIVE FilterSeq(_, _)
FilterSeq(s, keep) ==
  IF s = <<>> THEN <<>>
  ELSE LET n    == Len(s)
           rest == FilterSeq(SubSeq(s, 1, n - 1), keep)
       IN IF s[n] \in keep THEN Append(rest, s[n]) ELSE rest

\* mutant: the brand is not looked at
suitable_automates_anybrand(brand, auts, ord) == ord

\* keys of the dict comprehension, in the iteration order of automates
suitable_automates(brand, auts, ord) ==
  FilterSeq(ord, {num \in DOMAIN auts : brand \in auts[num].brands})

\* mutant: among the keys of least queue the last one wins
RECURSIVE MinByQueue_last(_, _)
MinByQueue_last(keys, auts) ==
  IF Len(keys) = 1 THEN keys[1]
  ELSE LET n    == Len(keys)
           best == MinByQueue_last(SubSeq(keys, 1, n - 1), auts)
       IN IF auts[keys[n]].queue <= auts[best].queue THEN keys[n] ELSE best

\* min(keys, key=queue): the first key, in iteration order, of least queue
RECURSIVE MinByQueue(_, _)
MinByQueue(keys, auts) ==
  IF Len(keys) = 1 THEN keys[1]
  ELSE LET n    == Len(keys)
           best == MinByQueue(SubSeq(keys, 1, n - 1), auts)
       IN IF auts[keys[n]].queue < auts[best].queue THEN keys[n] ELSE best

\* mutant: the filter queue < max_queue is missing
automate_num_nocap(suitable, auts) ==
  IF suitable = <<>> THEN 0 ELSE MinByQueue(suitable, auts)

automate_num(suitable, auts) ==
  IF suitable = <<>> THEN 0
  ELSE LET available ==
             FilterSeq(suitable,
                       {num \in DOMAIN auts : auts[num].queue < auts[num].max_queue})
       IN IF available = <<>> THEN 0 ELSE MinByQueue(available, auts)

(* -------------------------- service-time model ------------------------ *)
\* mutant: the quotient is rounded down
CeilDiv10_floor(volume) == volume \div 10

CeilDiv10(volume) == (volume + 9) \div 10

Max(a, b) == IF a >= b THEN a ELSE b

\* mutant: the volume is not divided by 10
refuel_time_nodiv(volume, variation) == Max(1, volume + variation)

\* mutant: the second run does not get the variations of the first run
\* again, its draws come out one higher
refuel_time_drift(volume, variation) ==
  Max(1, CeilDiv10(volume) + variation + (replay.run - 1))

refuel_time(volume, variation) == Max(1, CeilDiv10(volume) + variation)

(* ------------------------------ timeline ------------------------------ *)
MinKey(events) == CHOOSE t \in DOMAIN events : \A u \in DOMAIN events : t <= u

\* finish_events[finish_time] = {...}: an entry under the same key is replaced
PutEvent(events, finish_time, info) ==
  [t \in DOMAIN events \cup {finish_time} |->
     IF t = finish_time THEN info ELSE events[t]]

\* del finish_events[finish_time]
DelEvent(events, finish_time) ==
  [t \in DOMAIN events \ {finish_time} |-> events[t]]

\* automate['queue'] -= 1; automate['previous_time'] = finish_time
FinishAt(auts, num, finish_time) ==
  [auts EXCEPT ![num].queue = @ - 1, ![num].previous_time = finish_time]

\* mutant: queueing a client also resets previous_time
Enqueue_resets(auts, num) ==
  [auts EXCEPT ![num].queue = @ + 1, ![num].previous_time = 0]

\* automates[chosen_num]['queue'] += 1
Enqueue(auts, num) == [auts EXCEPT ![num].queue = @ + 1]

\* mutant: the comparison with the arrival time is reversed
Due_reversed(events, current_time) ==
  DOMAIN events # {} /\ MinKey(events) >= current_time

\* mutant: a completion due exactly at the arrival time is left pending
Due_strict(events, current_time) ==
  DOMAIN events # {} /\ MinKey(events) < current_time

\* the while condition of the for loop body
Due(events, current_time) ==
  DOMAIN events # {} /\ MinKey(events) <= current_time

\* position after the body of the for loop
AfterRequest(i) == IF i + 1 > Len(all_requests) THEN "while_final" ELSE "for"

(* ------------------------------- Init --------------------------------- *)
\* no first run is kept, no call of refuel_time is under way
NoReplay == [run |-> 1, first |-> <<>>]

NoCall == <<>>

\* main() up to the for loop, for the given catalog lines and input lines
Start(lines, input) ==
  /\ automates = LoadAutomates(lines)
  /\ order = LoadOrder(lines)
  /\ all_requests = SortByTime(input)
  /\ idx = 1
  /\ finish_events = <<>>
  /\ fuel_sold = ZeroByBrand
  /\ total_revenue = 0
  /\ lost_clients = 0
  /\ lost_clients_by_brand = ZeroByBrand
  /\ pc = IF input = <<>> THEN "while_final" ELSE "for"
  /\ log = <<>>
  /\ applied = <<>>

Init ==
  /\ \E lines \in Catalogs, input \in RequestLists : Start(lines, input)
  /\ replay = NoReplay
  /\ call = NoCall

(* ------------------------------ actions ------------------------------- *)
\* history of the applied completions: the request, its finish time, its
\* automate, and the number of arrivals handled so far
Applied(finish_time, info) ==
  [req |-> info.req, finish |-> finish_time, num |-> info.num, seen |-> Len(log)]

\* one iteration of the while loop inside the for loop
Finish ==
  /\ pc = "for"
  /\ Due(finish_events, all_requests[idx].time)
  /\ LET finish_time == MinKey(finish_events)
         finish_info == finish_events[finish_time]
     IN /\ automates' = FinishAt(automates, finish_info.num, finish_time)
        /\ finish_events' = DelEvent(finish_events, finish_time)
        /\ applied' = Append(applied, Applied(finish_time, finish_info))
  /\ UNCHANGED <<order, all_requests, idx, fuel_sold, total_revenue,
                 lost_clients, lost_clients_by_brand, pc, log, harness>>

\* the selection made for the request at idx, once the due completions
\* have been applied
Chosen ==
  automate_num(suitable_automates(all_requests[idx].brand, automates, order),
               automates)

QueueOf(auts) == [num \in DOMAIN auts |-> auts[num].queue]

LostEntry(request) ==
  [req |-> idx, time |-> request.time, brand |-> request.brand,
   volume |-> request.volume, num |-> 0, variation |-> 0, duration |-> 0,
   start |-> 0, finish |-> 0, qbefore |-> QueueOf(automates)]

\* mutant: the lost client is not counted in lost_clients
Lost_nocount ==
  /\ pc = "for"
  /\ ~Due(finish_events, all_requests[idx].time)
  /\ Chosen = 0
  /\ all_requests[idx].brand \in DOMAIN lost_clients_by_brand
  /\ lost_clients_by_brand' =
       [lost_clients_by_brand EXCEPT ![all_requests[idx].brand] = @ + 1]
  /\ log' = Append(log, LostEntry(all_requests[idx]))
  /\ pc' = AfterRequest(idx)
  /\ idx' = idx + 1
  /\ UNCHANGED <<automates, order, all_requests, finish_events, fuel_sold,
                 total_revenue, lost_clients, applied, harness>>

\* the branch 'if not chosen_num' for a brand of lost_clients_by_brand
Lost ==
  /\ pc = "for"
  /\ ~Due(finish_events, all_requests[idx].time)
  /\ Chosen = 0
  /\ all_requests[idx].brand \in DOMAIN lost_clients_by_brand
  /\ lost_clients' = lost_clients + 1
  /\ lost_clients_by_brand' =
       [lost_clients_by_brand EXCEPT ![all_requests[idx].brand] = @ + 1]
  /\ log' = Append(log, LostEntry(all_requests[idx]))
  /\ pc' = AfterRequest(idx)
  /\ idx' = idx + 1
  /\ UNCHANGED <<automates, order, all_requests, finish_events, fuel_sold,
                 total_revenue, applied, harness>>

\* the same branch for a brand that is no key of lost_clients_by_brand:
\* lost_clients is incremented, then the next line raises KeyError
LostKeyError ==
  /\ pc = "for"
  /\ ~Due(finish_events, all_requests[idx].time)
  /\ Chosen = 0
  /\ all_requests[idx].brand \notin DOMAIN lost_clients_by_brand
  /\ lost_clients' = lost_clients + 1
  /\ log' = Append(log, LostEntry(all_requests[idx]))
  /\ pc' = "crashed"
  /\ UNCHANGED <<automates, order, all_requests, idx, finish_events, fuel_sold,
                 total_revenue, lost_clients_by_brand, applied, harness>>

\* the entry of finish_events for the accepted request (req is its index
\* in all_requests, kept for the history)
FinishInfo(request, chosen_num, duration) ==
  [num |-> chosen_num, arrival_time |-> request.time, brand |-> request.brand,
   volume |-> request.volume, duration |-> duration, req |-> idx]

\* mutant: the arrival time is not looked at
StartTime_nomax(auts, chosen_num, request) == auts[chosen_num].previous_time

\* start_time = max(previous_finish, request['time'])
StartTime(auts, chosen_num, request) ==
  Max(auts[chosen_num].previous_time, request.time)

AcceptEntry(request, chosen_num, variation) ==
  LET duration   == refuel_time(request.volume, variation)
      start_time == StartTime(automates, chosen_num, request)
  IN [req |-> idx, time |-> request.time, brand |-> request.brand,
      volume |-> request.volume, num |-> chosen_num, variation |-> variation,
      duration |-> duration, start |-> start_time,
      finish |-> start_time + duration, qbefore |-> QueueOf(automates)]

\* the else branch up to finish_events[finish_time] = {...}
Place(request, chosen_num, variation) ==
  LET duration    == refuel_time(request.volume, variation)
      start_time  == StartTime(automates, chosen_num, request)
      finish_time == start_time + duration
  IN /\ automates' = Enqueue(automates, chosen_num)
     /\ finish_events' =
          PutEvent(finish_events, finish_time,
                   FinishInfo(request, chosen_num, duration))
     /\ log' = Append(log, AcceptEntry(request, chosen_num, variation))

\* the else branch for a brand of fuel_sold and petrol_prices
Accept ==
  /\ pc = "for"
  /\ ~Due(finish_events, all_requests[idx].time)
  /\ Chosen # 0
  /\ all_requests[idx].brand \in DOMAIN fuel_sold
  /\ \E variation \in Variations : Place(all_requests[idx], Chosen, variation)
  /\ fuel_sold' =
       [fuel_sold EXCEPT ![all_requests[idx].brand] = @ + all_requests[idx].volume]
  /\ total_revenue' =
       total_revenue + all_requests[idx].volume * petrol_prices[all_requests[idx].brand]
  /\ pc' = AfterRequest(idx)
  /\ idx' = idx + 1
  /\ UNCHANGED <<order, all_requests, lost_clients, lost_clients_by_brand, applied, harness>>

\* the else branch for a brand that is no key of fuel_sold: the request is
\* queued and its completion scheduled, then fuel_sold[...] raises KeyError
AcceptKeyError ==
  /\ pc = "for"
  /\ ~Due(finish_events, all_requests[idx].time)
  /\ Chosen # 0
  /\ all_requests[idx].brand \notin DOMAIN fuel_sold
  /\ \E variation \in Variations : Place(all_requests[idx], Chosen, variation)
  /\ pc' = "crashed"
  /\ UNCHANGED <<order, all_requests, idx, fuel_sold, total_revenue,
                 lost_clients, lost_clients_by_brand, applied, harness>>

\* one iteration of the while loop after the for loop
FinalFinish ==
  /\ pc = "while_final"
  /\ DOMAIN finish_events # {}
  /\ LET finish_time == MinKey(finish_events)
         finish_info == finish_events[finish_time]
     IN /\ automates' = FinishAt(automates, finish_info.num, finish_time)
        /\ finish_events' = DelEvent(finish_events, finish_time)
        /\ applied' = Append(applied, Applied(finish_time, finish_info))
  /\ UNCHANGED <<order, all_requests, idx, fuel_sold, total_revenue,
                 lost_clients, lost_clients_by_brand, pc, log, harness>>

\* the timeline is empty: the totals are printed and main() returns
Report ==
  /\ pc = "while_final"
  /\ DOMAIN finish_events = {}
  /\ pc' = "done"
  /\ UNCHANGED <<automates, order, all_requests, idx, finish_events, fuel_sold,
                 total_revenue, lost_clients, lost_clients_by_brand, log, applied, harness>>

Next ==
  \/ Finish
  \/ Lost
  \/ LostKeyError
  \/ Accept
  \/ AcceptKeyError
  \/ FinalFinish
  \/ Report

Spec == Init /\ [][Next]_vars

(* ------------------- the same run with small volumes ------------------ *)
\* requests for 5 litres, a volume below one unit of 10 litres
SmallVolumes == {5}

SmallRequests == [time : Times, volume : SmallVolumes, brand : Brands]

SmallRequestLists == UNION {[1..n -> SmallRequests] : n \in 0..MaxRequests}

InitSmallVolume ==
  /\ \E lines \in Catalogs, input \in SmallRequestLists : Start(lines, input)
  /\ replay = NoReplay
  /\ call = NoCall

SpecSmallVolume == InitSmallVolume /\ [][Next]_vars

(* --------------------- one call of refuel_time ------------------------ *)
\* a request of any volume arriving at an automate whose previous client
\* finished at previous_time
CallInputs ==
  [volume : 1..MaxVolume, variation : Variations, time : Times,
   previous_time : Times, returned : {FALSE}, duration : {0}, finish : {0}]

\* main() is not running: no catalog, no requests
InitRefuel ==
  /\ Start(<<>>, <<>>)
  /\ replay = NoReplay
  /\ call \in CallInputs

\* duration = refuel_time(volume), then the start and finish time of the
\* else branch of main()
RefuelCall ==
  /\ ~call.returned
  /\ LET duration   == refuel_time(call.volume, call.variation)
         auts       == <<[previous_time |-> call.previous_time]>>
         start_time == StartTime(auts, 1, [time |-> call.time])
     IN call' = [call EXCEPT !.returned = TRUE, !.duration = duration,
                             !.finish = start_time + duration]
  /\ UNCHANGED <<automates, order, all_requests, idx, finish_events, fuel_sold,
                 total_revenue, lost_clients, lost_clients_by_brand, pc, log,
                 applied, replay>>

SpecRefuel == InitRefuel /\ [][RefuelCall]_vars

(* ------------------------- running main() twice ----------------------- *)
\* what a run leaves behind
Outcome ==
  [log |-> log, applied |-> applied, fuel_sold |-> fuel_sold,
   total_revenue |-> total_revenue, lost_clients |-> lost_clients,
   lost_clients_by_brand |-> lost_clients_by_brand, pc |-> pc]

\* get_information on the same catalog again
FreshAutomates ==
  [num \in DOMAIN automates |->
     NewAutomate([num |-> num, max_queue |-> automates[num].max_queue,
                  brands |-> automates[num].brands])]

\* main() has ended (returned or raised) and is called again on the same
\* files: the outcome of the first run is kept aside in replay
Restart ==
  /\ pc \in {"done", "crashed"}
  /\ replay.run = 1
  /\ replay' = [run |-> 2, first |-> Outcome]
  /\ automates' = FreshAutomates
  /\ idx' = 1
  /\ finish_events' = <<>>
  /\ fuel_sold' = ZeroByBrand
  /\ total_revenue' = 0
  /\ lost_clients' = 0
  /\ lost_clients_by_brand' = ZeroByBrand
  /\ pc' = IF all_requests = <<>> THEN "while_final" ELSE "for"
  /\ log' = <<>>
  /\ applied' = <<>>
  /\ UNCHANGED <<order, all_requests, call>>

\* the variations drawn by the calls of refuel_time of a run, in order
RECURSIVE VariationsOf(_)
VariationsOf(lg) ==
  IF lg = <<>> THEN <<>>
  ELSE LET n    == Len(lg)
           rest == VariationsOf(SubSeq(lg, 1, n - 1))
       IN IF lg[n].num # 0 THEN Append(rest, lg[n].variation) ELSE rest

\* the second run draws the variations of the first run again: its k-th
\* call of refuel_time gets what the k-th call of the first run got
SameSource ==
  (replay.run = 2 /\ Len(log') > Len(log) /\ log'[Len(log')].num # 0) =>
    LET k   == Len(VariationsOf(log'))
        src == VariationsOf(replay.first.log)
    IN k <= Len(src) => log'[Len(log')].variation = src[k]

NextReplay ==
  \/ Finish
  \/ Lost
  \/ LostKeyError
  \/ Accept /\ SameSource
  \/ AcceptKeyError /\ SameSource
  \/ FinalFinish
  \/ Report
  \/ Restart

ReplayRequestLists == UNION {[1..n -> Requests] : n \in 0..MaxReplayRequests}

InitReplay ==
  /\ \E lines \in Catalogs, input \in ReplayRequestLists : Start(lines, input)
  /\ replay = NoReplay
  /\ call = NoCall

SpecReplay == InitReplay /\ [][NextReplay]_vars

(* ------------------------ reading the history ------------------------- *)
LogIdx == 1..Len(log)

AcceptedIdx == {i \in LogIdx : log[i].num # 0}

LostIdx == {i \in LogIdx : log[i].num = 0}

\* how many applied completions belong to the request of index req
TimesApplied(req) == Cardinality({k \in 1..Len(applied) : applied[k].req = req})

(* ------------------------------ claims -------------------------------- *)

\* C1: when the run is done, the completion of every accepted request has
\* been applied (popped from the timeline) exactly once, also when two
\* accepted requests got the same finish time.
C1_EveryAcceptedDrainedOnce ==
  pc = "done" => \A i \in AcceptedIdx : TimesApplied(log[i].req) = 1

\* C2: in every reachable state every automate has 0 <= queue <= max_queue.
C2_QueueWithinBounds ==
  \A num \in DOMAIN automates :
    /\ 0 <= automates[num].queue
    /\ automates[num].queue <= automates[num].max_queue

\* C2 witness: after an arrival was queued and a completion was applied,
\* some automate of positive capacity is full.
C2_Witness ==
  /\ applied # <<>>
  /\ \E num \in DOMAIN automates :
       /\ automates[num].max_queue >= 1
       /\ automates[num].queue = automates[num].max_queue

\* C3: when the run is done (arrivals exhausted, timeline empty), the queue
\* of every automate is back to 0.
C3_QueuesZeroWhenDone ==
  pc = "done" => \A num \in DOMAIN automates : automates[num].queue = 0

\* the automates that could take the request of log entry i: they support
\* its brand and had queue < max_queue when the selection was made
EligibleAt(i) ==
  {num \in DOMAIN automates :
     /\ log[i].brand \in automates[num].brands
     /\ log[i].qbefore[num] < automates[num].max_queue}

\* position of an automate in the order in which the catalog was loaded
PosIn(ord, num) == CHOOSE k \in 1..Len(ord) : ord[k] = num

\* C4 (as stated): the selected automate is eligible, has the least queue
\* among the eligible ones, and among those tied on the least queue it has
\* the smallest number, whatever the order of the catalog.
C4_TieSmallestId ==
  \A i \in AcceptedIdx :
    /\ log[i].num \in EligibleAt(i)
    /\ \A m \in EligibleAt(i) :
         \/ log[i].qbefore[log[i].num] < log[i].qbefore[m]
         \/ /\ log[i].qbefore[log[i].num] = log[i].qbefore[m]
            /\ log[i].num <= m

\* C4 (amended): the selected automate is eligible, has the least queue
\* among the eligible ones, and among those tied on the least queue it is
\* the one loaded first from the catalog.
C4_TieFirstLoaded ==
  \A i \in AcceptedIdx :
    /\ log[i].num \in EligibleAt(i)
    /\ \A m \in EligibleAt(i) :
         \/ log[i].qbefore[log[i].num] < log[i].qbefore[m]
         \/ /\ log[i].qbefore[log[i].num] = log[i].qbefore[m]
            /\ PosIn(order, log[i].num) <= PosIn(order, m)

\* C4 witness: a selection with a tie on the least queue, won by the
\* automate of the larger number because it was loaded first.
C4_Witness ==
  \E i \in AcceptedIdx : \E m \in EligibleAt(i) :
    /\ m < log[i].num
    /\ log[i].qbefore[m] = log[i].qbefore[log[i].num]

\* C5: the selected automate always supports the brand of the request and
\* had queue < max_queue when it was selected.
C5_NeverUnsupportedNorFull ==
  \A i \in AcceptedIdx :
    /\ log[i].brand \in automates[log[i].num].brands
    /\ log[i].qbefore[log[i].num] # automates[log[i].num].max_queue

\* C5 witness: a request was placed while another automate supporting its
\* brand was full with at least one client.
C5_Witness ==
  \E i \in AcceptedIdx : \E m \in DOMAIN automates :
    /\ m # log[i].num
    /\ log[i].brand \in automates[m].brands
    /\ automates[m].max_queue >= 1
    /\ log[i].qbefore[m] = automates[m].max_queue

\* C6: completions are applied in non-decreasing order of finish time, and
\* the completion of every accepted request whose finish time is <= T has
\* been applied before the arrival at time T is handled.
C6_DueCompletionsAppliedFirst ==
  /\ \A k \in 1..(Len(applied) - 1) : applied[k].finish <= applied[k + 1].finish
  /\ \A i \in AcceptedIdx : \A j \in LogIdx :
       (i < j /\ log[i].finish <= log[j].time) =>
         \E k \in 1..Len(applied) :
           applied[k].req = log[i].req /\ applied[k].seen < j

HandlesArrival ==
  pc = "for" /\ ~Due(finish_events, all_requests[idx].time) /\ log' # log

\* the arrival at idx is counted as lost, in total and for its brand
CountedLost ==
  /\ lost_clients' = lost_clients + 1
  /\ all_requests[idx].brand \in DOMAIN lost_clients_by_brand'
  /\ all_requests[idx].brand \in DOMAIN lost_clients_by_brand
  /\ lost_clients_by_brand' =
       [lost_clients_by_brand EXCEPT ![all_requests[idx].brand] = @ + 1]

\* C8: handling an arrival for which no automate is selected adds 1 to
\* lost_clients and to the lost count of its brand, and changes no automate,
\* no pending completion and no sales figure.
C8_LostOnlyCountsLost ==
  [][(HandlesArrival /\ Chosen = 0) =>
       /\ CountedLost
       /\ UNCHANGED <<automates, finish_events, fuel_sold, total_revenue>>]_vars

\* no automate of the catalog supports the brand
Unsupported(brand) == \A num \in DOMAIN automates : brand \notin automates[num].brands

\* C9: an arrival whose brand no automate supports is recorded as lost and
\* the run goes on with the next request.
C9_UnsupportedAlwaysLost ==
  [][(HandlesArrival /\ Unsupported(all_requests[idx].brand)) =>
       /\ log'[Len(log')].num = 0
       /\ CountedLost
       /\ idx' = idx + 1
       /\ pc' \in {"for", "while_final"}]_vars

\* the scenario of C10: one automate 1 with max_queue 1 selling AI-92, two
\* requests for 10 litres of AI-92 at 00:00 and 00:01, variation always 0
ScenarioC10 ==
  /\ order = <<1>>
  /\ automates[1].max_queue = 1
  /\ automates[1].brands = {"AI-92"}
  /\ all_requests = <<[time |-> 0, volume |-> 10, brand |-> "AI-92"],
                      [time |-> 1, volume |-> 10, brand |-> "AI-92"]>>
  /\ \A i \in LogIdx : log[i].variation = 0

\* C10 (as stated): request 1 is accepted on automate 1 (queue 1) and
\* finishes at 00:10; request 2 finds automate 1 full and is lost.
C10_SecondRequestLost ==
  /\ (ScenarioC10 /\ Len(log) = 1 /\ applied = <<>>) =>
       /\ log[1].num = 1
       /\ automates[1].queue = 1
       /\ log[1].finish = 10
  /\ (ScenarioC10 /\ Len(log) = 2) =>
       /\ log[2].qbefore[1] = 1
       /\ log[2].num = 0

\* C10 (amended): the duration is 1; request 1 is accepted on automate 1
\* (queue 1) and finishes at 00:01; that completion is applied before the
\* arrival of 00:01 is handled, so request 2 finds the queue at 0 and is
\* accepted on automate 1, finishing at 00:02.
C10_SecondRequestAccepted ==
  /\ (ScenarioC10 /\ Len(log) = 1 /\ applied = <<>>) =>
       /\ log[1].num = 1
       /\ automates[1].queue = 1
       /\ log[1].duration = 1
       /\ log[1].finish = 1
       /\ DOMAIN finish_events = {1}
  /\ (ScenarioC10 /\ Len(log) = 2) =>
       /\ applied[1].req = 1 /\ applied[1].finish = 1 /\ applied[1].seen = 1
       /\ log[2].qbefore[1] = 0
       /\ log[2].num = 1
       /\ log[2].finish = 2

\* C10 witness: the scenario has run to its end.
C10_Witness == ScenarioC10 /\ Len(log) = 2 /\ pc = "done"

\* the scenario of C11: one automate 1 with max_queue 1 selling AI-92, two
\* requests for 5 litres of AI-92 at 00:00 and 00:20, variation always 0
ScenarioC11 ==
  /\ order = <<1>>
  /\ automates[1].max_queue = 1
  /\ automates[1].brands = {"AI-92"}
  /\ all_requests = <<[time |-> 0, volume |-> 5, brand |-> "AI-92"],
                      [time |-> 20, volume |-> 5, brand |-> "AI-92"]>>
  /\ \A i \in LogIdx : log[i].variation = 0

\* C11: in the scenario the first request lasts 1 minute and finishes at
\* 00:01; that completion is applied before the arrival of 00:20 is handled;
\* the second request is accepted, starts at 00:20 and finishes at 00:21.
C11_SecondStartsAtArrival ==
  /\ (ScenarioC11 /\ Len(log) >= 1) =>
       /\ log[1].num = 1
       /\ log[1].duration = 1
       /\ log[1].finish = 1
  /\ (ScenarioC11 /\ Len(log) = 1 /\ applied = <<>>) =>
       DOMAIN finish_events = {1}
  /\ (ScenarioC11 /\ Len(log) = 2) =>
       /\ Len(applied) >= 1
       /\ applied[1].req = 1 /\ applied[1].finish = 1 /\ applied[1].seen = 1
       /\ log[2].qbefore[1] = 0
       /\ log[2].num = 1
       /\ log[2].start = 20
       /\ log[2].finish = 21
  /\ (ScenarioC11 /\ Len(log) = 2 /\ Len(applied) = 1) =>
       DOMAIN finish_events = {21}

\* C11 witness: the scenario has run to its end.
C11_Witness == ScenarioC11 /\ Len(log) = 2 /\ pc = "done"

\* the step that places the request at idx on the selected automate
PlacesRequest == HandlesArrival /\ Chosen # 0

\* the key under which the request of index req is pending, if any
KeysOf(events, req) == {t \in DOMAIN events : events[t].req = req}

\* the placed request is pending at max(previous_time of the selected
\* automate, arrival time) + duration, which is not before its arrival
FinishIsStartPlusDuration ==
  \E t \in KeysOf(finish_events', idx) :
    /\ t = (IF automates[Chosen].previous_time >= all_requests[idx].time
              THEN automates[Chosen].previous_time
              ELSE all_requests[idx].time) + finish_events'[t].duration
    /\ t >= all_requests[idx].time
    /\ finish_events'[t].duration = log'[Len(log')].duration

\* the second run has so far placed and finished its requests as the first
FinishTimesReproduced ==
  replay.run = 2 =>
    \A i \in LogIdx :
      /\ i <= Len(replay.first.log)
      /\ log[i].num = replay.first.log[i].num
      /\ log[i].finish = replay.first.log[i].finish

\* C12: every accepted request gets finish time = max(previous_time of
\* the selected automate, arrival time) + duration >= arrival time; and
\* when the same input is run again with the same variations, every
\* request gets the finish time it got in the first run.
C12_FinishTimes ==
  /\ [][PlacesRequest => FinishIsStartPlusDuration]_vars
  /\ [](FinishTimesReproduced)

\* C12 witness: the second run has ended after two accepted requests, one
\* of them with a variation other than 0.
C12_Witness ==
  /\ replay.run = 2
  /\ pc = "done"
  /\ Cardinality(AcceptedIdx) >= 2
  /\ \E i \in AcceptedIdx : log[i].variation # 0

\* C13: when the same sorted request list is run again on the freshly
\* loaded catalog with the same variations, the run ends as the first one
\* did, with the same sales, revenue and lost counts.
C13_ReplaySameStatistics ==
  (replay.run = 2 /\ pc \in {"done", "crashed"}) =>
    /\ pc = replay.first.pc
    /\ fuel_sold = replay.first.fuel_sold
    /\ total_revenue = replay.first.total_revenue
    /\ lost_clients = replay.first.lost_clients
    /\ lost_clients_by_brand = replay.first.lost_clients_by_brand

\* C13 witness: the second run has ended with a sale and a lost client,
\* after a variation other than 0.
C13_Witness ==
  /\ replay.run = 2
  /\ pc = "done"
  /\ lost_clients >= 1
  /\ \E i \in AcceptedIdx : log[i].variation # 0

\* C14: the service intervals [start, finish) of two requests accepted on
\* the same automate never overlap.
C14_NoOverlapOnAutomate ==
  \A i \in AcceptedIdx : \A j \in AcceptedIdx :
    (i < j /\ log[i].num = log[j].num) =>
      \/ log[i].finish <= log[j].start
      \/ log[j].finish <= log[i].start

\* C15: the run never stops before it is done; once the requests are
\* exhausted no arrival is handled any more; the completions are applied
\* earliest first; and when the run is done the timeline is empty.
C15_RunReachesDone ==
  /\ pc = "done" \/ ENABLED Next
  /\ pc \in {"while_final", "done"} =>
       /\ idx > Len(all_requests) \/ all_requests = <<>>
       /\ Len(log) = Len(all_requests)
  /\ \A k \in 1..(Len(applied) - 1) : applied[k].finish <= applied[k + 1].finish
  /\ pc = "done" => DOMAIN finish_events = {}

\* a completion is applied in this step
AppliesCompletion == applied' # applied

\* C16: the step that places a request adds its volume to fuel_sold of its
\* brand and volume * price to total_revenue; the step that applies a
\* completion changes no sales, revenue or lost count.
C16_SalesAtAcceptance ==
  [][/\ PlacesRequest =>
         /\ all_requests[idx].brand \in DOMAIN fuel_sold
         /\ fuel_sold' =
              [fuel_sold EXCEPT
                 ![all_requests[idx].brand] = @ + all_requests[idx].volume]
         /\ total_revenue' =
              total_revenue
                + all_requests[idx].volume * petrol_prices[all_requests[idx].brand]
     /\ AppliesCompletion =>
         UNCHANGED <<fuel_sold, total_revenue, lost_clients,
                     lost_clients_by_brand>>]_vars

\* the completion applied in this step
LastApplied == applied'[Len(applied')]

\* C17: previous_time of an automate changes only in a step that applies a
\* completion of that automate, and becomes its finish time; placing a
\* request adds 1 to the queue of the selected automate and changes nothing
\* else of any automate; applying a completion takes 1 from the queue of
\* its automate, sets its previous_time and changes no other automate.
C17_AutomateFrame ==
  [][/\ DOMAIN automates' = DOMAIN automates
     /\ \A num \in DOMAIN automates :
          /\ automates'[num].max_queue = automates[num].max_queue
          /\ automates'[num].brands = automates[num].brands
          /\ automates'[num].previous_time # automates[num].previous_time =>
               /\ AppliesCompletion
               /\ LastApplied.num = num
               /\ automates'[num].previous_time = LastApplied.finish
     /\ PlacesRequest =>
          \A num \in DOMAIN automates :
            /\ automates'[num].previous_time = automates[num].previous_time
            /\ automates'[num].queue =
                 automates[num].queue + (IF num = Chosen THEN 1 ELSE 0)
     /\ AppliesCompletion =>
          \A num \in DOMAIN automates :
            IF num = LastApplied.num
            THEN /\ automates'[num].queue = automates[num].queue - 1
                 /\ automates'[num].previous_time = LastApplied.finish
            ELSE automates'[num] = automates[num]]_vars

\* C17 witness: a request was placed on an automate that had applied a
\* completion before (its previous_time was no longer 00:00) and still had
\* a client queued.
C17_Witness ==
  \E i \in AcceptedIdx : \E k \in 1..Len(applied) :
    /\ applied[k].num = log[i].num
    /\ applied[k].seen < i
    /\ applied[k].finish > 0
    /\ log[i].qbefore[log[i].num] >= 1
    /\ automates[log[i].num].previous_time >= applied[k].finish

\* the least number of units of 10 litres that hold the volume
UnitsOf10(volume) ==
  CHOOSE b \in 0..volume : 10 * b >= volume /\ 10 * (b - 1) < volume

\* C18: for every volume >= 1 and every variation the duration is
\* max(1, ceil(volume / 10) + variation), at least 1 minute, so the finish
\* time is after the arrival time.
C18_DurationAtLeastOne ==
  call # NoCall =>
    (call.returned =>
       /\ call.duration =
            (IF UnitsOf10(call.volume) + call.variation >= 1
             THEN UnitsOf10(call.volume) + call.variation ELSE 1)
       /\ call.duration >= 1
       /\ call.finish > call.time)

\* C18 witness: a call whose variation would bring the duration to 0 has
\* returned.
C18_Witness ==
  /\ call # NoCall
  /\ call.returned
  /\ call.volume <= 10
  /\ call.variation = -1

\* the completions pending for an automate
PendingOn(num) == {t \in DOMAIN finish_events : finish_events[t].num = num}

\* C19: the queue of every automate is the number of its pending
\* completions.
C19_QueueIsPendingCount ==
  \A num \in DOMAIN automates :
    automates[num].queue = Cardinality(PendingOn(num))

\* C20: when the arrival at time T is handled every pending completion is
\* later than T and previous_time of every automate is <= T, so a placed
\* request starts at its arrival time and finishes at T + duration.
C20_StartIsArrival ==
  [][HandlesArrival =>
       /\ \A t \in DOMAIN finish_events : t > all_requests[idx].time
       /\ \A num \in DOMAIN automates :
            automates[num].previous_time <= all_requests[idx].time
       /\ Chosen # 0 =>
            /\ log'[Len(log')].start = all_requests[idx].time
            /\ \E t \in KeysOf(finish_events', idx) :
                 t = all_requests[idx].time + finish_events'[t].duration]_vars

\* C20 witness: a request was placed behind a client still queued on the
\* same automate and yet starts at its own arrival time.
C20_Witness ==
  \E i \in AcceptedIdx :
    /\ log[i].qbefore[log[i].num] >= 1
    /\ log[i].start = log[i].time
    /\ log[i].finish = log[i].time + log[i].duration
====
